---------------------------- MODULE Spec2Model ----------------------------
(***************************************************************************)
(* GNO Flow Monitor: the Transfer event handler (src/src/EventHandlers.ts)  *)
(* and the export script (src/scripts/export-summary.ts).                   *)
(*                                                                         *)
(* Strings that the code takes apart (decimal strings) are sequences of    *)
(* one-character strings.  Integers stand for JavaScript bigint / number.   *)
(***************************************************************************)
EXTENDS Integers, Sequences, FiniteSets, TLC

VARIABLES
    Transfer,        \* ledger store: the Transfer entity table
    Account,         \* ledger store: the Account entity table
    blockNumber,     \* block number of the last indexed event
    pc,              \* position of the running script
    allTransfers,    \* main: allTransfers
    offset,          \* main: offset of the transfer scan
    totalTransfers,  \* main: totalTransfers
    flows7d,         \* main: flows7d (Map, in insertion order)
    flows30d,        \* main: flows30d (Map, in insertion order)
    idx,             \* main: number of transfers the aggregation loop has done
    top7d,           \* main: top7d
    top30d,          \* main: top30d
    addresses,       \* fetchBalances: addresses
    batchI,          \* fetchBalances: i
    balances,        \* fetchBalances: balanceMap / main: balances
    holderMap,       \* fetchTopHolders: holderMap (Map, in insertion order)
    hOffset,         \* fetchTopHolders: offset
    hLimit,          \* fetchTopHolders: limit
    topHolders,      \* main: topHolders
    labels,          \* main: labels
    output,          \* the file at OUTPUT_PATH
    written,         \* number of writeFileSync calls of the run
    failedAt,        \* the query whose failure ended the run, or "none"
    raw,             \* bigintToDecimalString: raw
    str              \* bigintToDecimalString: the returned string

ledgerVars == <<Transfer, Account, blockNumber>>
scanVars   == <<allTransfers, offset, totalTransfers>>
flowVars   == <<flows7d, flows30d, idx>>
topVars    == <<top7d, top30d>>
balVars    == <<addresses, batchI, balances>>
holderVars == <<holderMap, hOffset, hLimit, topHolders>>
outVars    == <<labels, output, written, failedAt>>
codecVars  == <<raw, str>>

vars == <<ledgerVars, pc, scanVars, flowVars, topVars, balVars, holderVars,
          outVars, codecVars>>

---------------------------------------------------------------------------
(* Bounds of the model.  The program's sizes (TOP_N = 50, DECIMALS = 18,   *)
(* page sizes 10000 and 5000, batch size 500) are scaled down so that      *)
(* truncation, several pages and several batches happen on small inputs.   *)

\* export-summary.ts:9, const TOP_N = 50, scaled
TOP_N == 2
\* export-summary.ts:10, const DECIMALS = 18n, scaled
DECIMALS == 2
\* export-summary.ts:174, const limit = 10000, scaled
TRANSFER_LIMIT == 2
\* export-summary.ts:112, const limit = 5000, scaled
HOLDER_LIMIT == 2
\* export-summary.ts:75, const batchSize = 500, scaled
batchSize == 2
\* number of Transfer events indexed before the export runs, and the
\* longest list of retrieved transfers given to the aggregation loop
MaxEvents == 2
\* largest |raw| given to bigintToDecimalString
MaxRaw == 1250
\* largest flow map given to buildTop
MaxFlowLen == 4

\* stored transfers in the model of the transfer scan
MaxStored == 4

---------------------------------------------------------------------------
(* Helpers for JavaScript values.                                          *)

Min(a, b) == IF a < b THEN a ELSE b

Range(s) == {s[i] : i \in 1..Len(s)}

DigitChars == <<"0", "1", "2", "3", "4", "5", "6", "7", "8", "9">>

\* bigint.toString() / `${n}` of a non-negative integer
RECURSIVE NatToString(_)
NatToString(n) ==
    IF n < 10 THEN <<DigitChars[n + 1]>>
    ELSE NatToString(n \div 10) \o <<DigitChars[(n % 10) + 1]>>

\* bigint.toString() of any integer
IntToString(n) == IF n < 0 THEN <<"-">> \o NatToString(-n) ELSE NatToString(n)

DigitValue(c) == CHOOSE d \in 0..9 : DigitChars[d + 1] = c

RECURSIVE DigitsToNat(_)
DigitsToNat(s) ==
    IF Len(s) = 0 THEN 0
    ELSE 10 * DigitsToNat(SubSeq(s, 1, Len(s) - 1)) + DigitValue(s[Len(s)])

\* BigInt(s) of a decimal integer string
BigInt(s) ==
    IF Len(s) > 0 /\ s[1] = "-" THEN -DigitsToNat(Tail(s)) ELSE DigitsToNat(s)

\* s.padStart(n, c)
RECURSIVE padStart(_, _, _)
padStart(s, n, c) == IF Len(s) >= n THEN s ELSE padStart(<<c>> \o s, n, c)

\* s.replace(/0+$/, "")
RECURSIVE StripTrailingZeros(_)
StripTrailingZeros(s) ==
    IF Len(s) > 0 /\ s[Len(s)] = "0"
    THEN StripTrailingZeros(SubSeq(s, 1, Len(s) - 1))
    ELSE s

---------------------------------------------------------------------------
(* Decimal codec.                                                          *)

DECIMALS_DIVISOR == 10 ^ DECIMALS

\* a codec that forgets to left-pad the fractional digits
bigintToDecimalString_NoPad(x) ==
    LET negative == x < 0
        abs      == IF negative THEN -x ELSE x
        whole    == abs \div DECIMALS_DIVISOR
        frac     == abs % DECIMALS_DIVISOR
        prefix   == IF negative THEN <<"-">> ELSE <<>>
    IN  IF frac = 0 THEN prefix \o IntToString(whole)
        ELSE prefix \o IntToString(whole) \o <<".">>
                    \o StripTrailingZeros(IntToString(frac))

bigintToDecimalString(x) ==
    LET negative == x < 0
        abs      == IF negative THEN -x ELSE x
        whole    == abs \div DECIMALS_DIVISOR
        frac     == abs % DECIMALS_DIVISOR
        prefix   == IF negative THEN <<"-">> ELSE <<>>
        fracStr  == StripTrailingZeros(padStart(IntToString(frac), DECIMALS, "0"))
    IN  IF frac = 0 THEN prefix \o IntToString(whole)
        ELSE prefix \o IntToString(whole) \o <<".">> \o fracStr

\* s.padEnd(n, c)
RECURSIVE padEnd(_, _, _)
padEnd(s, n, c) == IF Len(s) >= n THEN s ELSE padEnd(s \o <<c>>, n, c)

\* position of the decimal point in s, or 0
PointAt(s) ==
    IF \E i \in 1..Len(s) : s[i] = "."
    THEN CHOOSE i \in 1..Len(s) : s[i] = "."
    ELSE 0

\* The reading of a decimal string at DECIMALS fractional digits.
fromDecimalString(s) ==
    LET negative == Len(s) > 0 /\ s[1] = "-"
        body     == IF negative THEN Tail(s) ELSE s
        p        == PointAt(body)
        wholeStr == IF p = 0 THEN body ELSE SubSeq(body, 1, p - 1)
        fracStr  == IF p = 0 THEN <<>> ELSE SubSeq(body, p + 1, Len(body))
        abs      == DigitsToNat(wholeStr) * DECIMALS_DIVISOR
                        + DigitsToNat(padEnd(fracStr, DECIMALS, "0"))
    IN  IF negative THEN -abs ELSE abs

---------------------------------------------------------------------------
(* The ledger: what the indexer receives and stores.                       *)

ZERO_ADDRESS == "0x00"

\* chains of config.yaml: Ethereum and Gnosis
ChainIds == {1, 100}

\* String.prototype.toLowerCase on the addresses of the events: "0xA" is
\* the checksummed spelling of "0xa"
toLowerCase(s) == IF s = "0xA" THEN "0xa" ELSE s

Values == {40, 100}

DAY == 86400

\* Math.floor(Date.now() / 1000) of the export run
now == 40 * DAY

cutoff7d == now - 7 * DAY

cutoff30d == now - 30 * DAY

\* the worked example of the specification: A -> B of 100 one day ago and
\* B -> C of 40 twenty days ago (A = 0xa, B = 0xb, C = 0xc)
ExampleAtoB ==
    [chainId |-> 1, from |-> "0xA", to |-> "0xb", value |-> 100,
     timestamp |-> now - DAY]

ExampleBtoC ==
    [chainId |-> 100, from |-> "0xb", to |-> "0xc", value |-> 40,
     timestamp |-> now - 20 * DAY]

\* the events of the export pipeline's model: mints, burns, transfers to
\* oneself and to another address, on both chains, before and inside the
\* windows, and the two events of the worked example
PipelineEvents ==
    {e \in [chainId : ChainIds, from : {ZERO_ADDRESS, "0xA", "0xb"},
            to : {ZERO_ADDRESS, "0xA", "0xb"}, value : {100},
            timestamp : {now - 31 * DAY, now - DAY}] :
        e.from # ZERO_ADDRESS \/ e.to # ZERO_ADDRESS}
        \cup {ExampleAtoB, ExampleBtoC}

\* the events of the ledger's model: every pair of spellings, both values
LedgerEvents ==
    [chainId : ChainIds, from : {ZERO_ADDRESS, "0xA", "0xa", "0xb"},
     to : {ZERO_ADDRESS, "0xA", "0xa", "0xb"}, value : Values,
     timestamp : {now - DAY}]

\* context.<Entity>.set(row): insert, or replace the row of the same id
EntitySet(table, row) == {r \in table : r.id # row.id} \cup {row}

\* (await context.Account.get(id))?.balance ?? 0n
BalanceOrZero(table, id) ==
    IF \E r \in table : r.id = id
    THEN (CHOOSE r \in table : r.id = id).balance
    ELSE 0

\* (await context.Account.get(id))?.transferCount ?? 0
CountOrZero(table, id) ==
    IF \E r \in table : r.id = id
    THEN (CHOOSE r \in table : r.id = id).transferCount
    ELSE 0

\* the Account row the handler writes for one side of a transfer
AccountUpdate(table, chainId, addr, delta, block, timestamp) ==
    EntitySet(table,
        [id |-> <<chainId, addr>>, chainId |-> chainId, address |-> addr,
         balance |-> BalanceOrZero(table, <<chainId, addr>>) + delta,
         transferCount |-> CountOrZero(table, <<chainId, addr>>) + 1,
         lastUpdatedBlock |-> block, lastUpdatedTimestamp |-> timestamp])

\* a handler that reads the receiver's row before the sender's row is written
HandlerAccounts_StaleRead(table, chainId, fromAddr, toAddr, value, block, ts) ==
    LET afterFrom ==
            IF fromAddr # ZERO_ADDRESS
            THEN AccountUpdate(table, chainId, fromAddr, -value, block, ts)
            ELSE table
    IN  IF toAddr # ZERO_ADDRESS
        THEN EntitySet(afterFrom,
                [id |-> <<chainId, toAddr>>, chainId |-> chainId,
                 address |-> toAddr,
                 balance |-> BalanceOrZero(table, <<chainId, toAddr>>) + value,
                 transferCount |-> CountOrZero(table, <<chainId, toAddr>>) + 1,
                 lastUpdatedBlock |-> block, lastUpdatedTimestamp |-> ts])
        ELSE afterFrom

\* the Account table after the handler's two updates
HandlerAccounts(table, chainId, fromAddr, toAddr, value, block, ts) ==
    LET afterFrom ==
            IF fromAddr # ZERO_ADDRESS
            THEN AccountUpdate(table, chainId, fromAddr, -value, block, ts)
            ELSE table
    IN  IF toAddr # ZERO_ADDRESS
        THEN AccountUpdate(afterFrom, chainId, toAddr, value, block, ts)
        ELSE afterFrom

\* GnoToken.Transfer.handler for one event; the event is the only log of
\* the next block, so its id is new
Handler(event) ==
    LET block    == blockNumber + 1
        fromAddr == toLowerCase(event.from)
        toAddr   == toLowerCase(event.to)
    IN  /\ pc = "index"
        /\ blockNumber < MaxEvents
        /\ blockNumber' = block
        /\ Transfer' = EntitySet(Transfer,
                [id |-> <<event.chainId, block, 0>>, chainId |-> event.chainId,
                 blockNumber |-> block, blockTimestamp |-> event.timestamp,
                 logIndex |-> 0, from |-> fromAddr, to |-> toAddr,
                 value |-> event.value])
        /\ Account' = HandlerAccounts(Account, event.chainId, fromAddr, toAddr,
                                      event.value, block, event.timestamp)
        /\ UNCHANGED <<pc, scanVars, flowVars, topVars, balVars, holderVars,
                       outVars, codecVars>>

---------------------------------------------------------------------------
(* The store's read contract (Hasura over Postgres).                       *)

\* all orders of the finite set S, as sequences
Orders(S) ==
    {o \in [1..Cardinality(S) -> S] :
        \A i, j \in 1..Cardinality(S) : i # j => o[i] # o[j]}

\* limit/offset applied to an ordered result
Page(o, limit, off) ==
    IF off >= Len(o) THEN <<>> ELSE SubSeq(o, off + 1, Min(off + limit, Len(o)))

\* a Transfer row as the RecentTransfers query returns it
TransferRow(t) ==
    [chainId |-> t.chainId, blockTimestamp |-> t.blockTimestamp,
     from |-> t.from, to |-> t.to, value |-> IntToString(t.value)]

\* an Account row as the queries return it
AccountRow(a) ==
    [address |-> a.address, chainId |-> a.chainId,
     balance |-> IntToString(a.balance), transferCount |-> a.transferCount]

\* The pages the store may answer to RecentTransfers: the rows at or after
\* the cutoff in an order ascending in blockTimestamp; the order among rows
\* of equal blockTimestamp is the store's choice at each request.
RecentTransfers(cutoff, limit, off) ==
    LET rows == {t \in Transfer : t.blockTimestamp >= cutoff}
        asc  == {o \in Orders(rows) :
                    \A i \in 1..(Len(o) - 1) :
                        o[i].blockTimestamp <= o[i + 1].blockTimestamp}
    IN  {[i \in 1..Len(Page(o, limit, off)) |->
              TransferRow(Page(o, limit, off)[i])] : o \in asc}

\* The pages the store may answer to TopAccounts: the rows of positive
\* balance in an order descending in balance; the order among rows of equal
\* balance is the store's choice at each request.
TopAccounts(limit, off) ==
    LET rows == {a \in Account : a.balance > 0}
        desc == {o \in Orders(rows) :
                    \A i \in 1..(Len(o) - 1) : o[i].balance >= o[i + 1].balance}
    IN  {[i \in 1..Len(Page(o, limit, off)) |->
              AccountRow(Page(o, limit, off)[i])] : o \in desc}

\* The answer to AccountBalances: the rows whose address is in the batch.
AccountBalances(batch) == {AccountRow(a) : a \in {r \in Account : r.address \in Range(batch)}}

\* The answer to TotalCount.
TotalCount == Cardinality(Transfer)

---------------------------------------------------------------------------
(* JavaScript Map, kept as the sequence of its entries in insertion order; *)
(* every entry carries its key in the field address.                       *)

MapHas(m, k) == \E i \in 1..Len(m) : m[i].address = k

MapIndex(m, k) == CHOOSE i \in 1..Len(m) : m[i].address = k

MapGet(m, k) == m[MapIndex(m, k)]

\* m.set(e.address, e): a present key keeps its place
MapSet(m, e) ==
    IF MapHas(m, e.address)
    THEN [m EXCEPT ![MapIndex(m, e.address)] = e]
    ELSE Append(m, e)

MapKeys(m) == {m[i].address : i \in 1..Len(m)}

\* CHAIN_NAMES[chainId] || `chain_${chainId}`
chainName(chainId) ==
    IF chainId = 1 THEN "ethereum"
    ELSE IF chainId = 100 THEN "gnosis"
    ELSE "chain_other"

\* [...chains].sort() for the chain names above
SortedChains(chains) ==
    LET order == <<"chain_other", "ethereum", "gnosis">>
        F[i \in 0..Len(order)] ==
            IF i = 0 THEN <<>>
            ELSE IF order[i] \in chains THEN Append(F[i - 1], order[i])
            ELSE F[i - 1]
    IN  F[Len(order)]

\* Array.prototype.sort(cmp), a stable sort: each element goes after the
\* elements that cmp does not put behind it; cmp is the comparator as a
\* function on pairs of elements
Sort(s, cmp) ==
    LET F[n \in 0..Len(s)] ==
            IF n = 0 THEN <<>>
            ELSE LET init == F[n - 1]
                     e    == s[n]
                     k    == Cardinality({i \in 1..Len(init) :
                                \A j \in 1..i : cmp[<<init[j], e>>] <= 0})
                 IN  SubSeq(init, 1, k) \o <<e>> \o SubSeq(init, k + 1, Len(init))
    IN  F[Len(s)]

\* Array.prototype.slice(0, n)
Slice(s, n) == SubSeq(s, 1, Min(n, Len(s)))

---------------------------------------------------------------------------
(* main: the windowed flow aggregation.                                    *)

\* a string is truthy unless it is empty
Truthy(s) == s # ""

\* flows.get(addr) || { inflow: 0n, outflow: 0n, count: 0, chains: new Set() }
FlowEntryOrNew(flows, addr) ==
    IF MapHas(flows, addr) THEN MapGet(flows, addr)
    ELSE [address |-> addr, inflow |-> 0, outflow |-> 0, count |-> 0,
          chains |-> {}]

\* the sender's block of the loop body (lines 236-247)
AddOutflow(flows, addr, value, chain) ==
    LET entry == FlowEntryOrNew(flows, addr)
    IN  MapSet(flows, [entry EXCEPT !.outflow = @ + value, !.count = @ + 1,
                                    !.chains = @ \cup {chain}])

\* the receiver's block of the loop body (lines 249-260)
AddInflow(flows, addr, value, chain) ==
    LET entry == FlowEntryOrNew(flows, addr)
    IN  MapSet(flows, [entry EXCEPT !.inflow = @ + value, !.count = @ + 1,
                                    !.chains = @ \cup {chain}])

\* a loop body that gives the zero address a flow entry like any other
FlowStep_NoZeroSkip(flows, cutoff, t) ==
    IF t.blockTimestamp < cutoff THEN flows
    ELSE AddInflow(AddOutflow(flows, toLowerCase(t.from), BigInt(t.value),
                              chainName(t.chainId)),
                   toLowerCase(t.to), BigInt(t.value), chainName(t.chainId))

\* a loop body that ignores the window's cutoff
FlowStep_NoCutoff(flows, cutoff, t) ==
    LET value    == BigInt(t.value)
        fromAddr == toLowerCase(t.from)
        toAddr   == toLowerCase(t.to)
        chain    == chainName(t.chainId)
        afterFrom ==
            IF Truthy(fromAddr) /\ fromAddr # ZERO_ADDRESS
            THEN AddOutflow(flows, fromAddr, value, chain)
            ELSE flows
    IN  IF Truthy(toAddr) /\ toAddr # ZERO_ADDRESS
        THEN AddInflow(afterFrom, toAddr, value, chain)
        ELSE afterFrom

\* a loop body that skips the receiver's block when the sender has been counted
FlowStep_OneSide(flows, cutoff, t) ==
    LET value    == BigInt(t.value)
        fromAddr == toLowerCase(t.from)
        toAddr   == toLowerCase(t.to)
        chain    == chainName(t.chainId)
    IN  IF t.blockTimestamp < cutoff THEN flows
        ELSE IF Truthy(fromAddr) /\ fromAddr # ZERO_ADDRESS
        THEN AddOutflow(flows, fromAddr, value, chain)
        ELSE IF Truthy(toAddr) /\ toAddr # ZERO_ADDRESS
        THEN AddInflow(flows, toAddr, value, chain)
        ELSE flows

\* the body of the inner loop for one [cutoff, flows] pair and transfer t
FlowStep(flows, cutoff, t) ==
    LET value    == BigInt(t.value)
        fromAddr == toLowerCase(t.from)
        toAddr   == toLowerCase(t.to)
        chain    == chainName(t.chainId)
        afterFrom ==
            IF Truthy(fromAddr) /\ fromAddr # ZERO_ADDRESS
            THEN AddOutflow(flows, fromAddr, value, chain)
            ELSE flows
    IN  IF t.blockTimestamp < cutoff THEN flows
        ELSE IF Truthy(toAddr) /\ toAddr # ZERO_ADDRESS
        THEN AddInflow(afterFrom, toAddr, value, chain)
        ELSE afterFrom

\* net and its absolute value, as the comparator of buildTop computes them
net(e) == e.inflow - e.outflow

absNet(e) == IF net(e) < 0 THEN -net(e) ELSE net(e)

\* the comparator of buildTop
flowCmp(a, b) ==
    IF absNet(b) > absNet(a) THEN 1 ELSE IF absNet(b) < absNet(a) THEN -1 ELSE 0

\* the output row of a flow entry
FlowRow(e) ==
    [address |-> e.address,
     inflow |-> bigintToDecimalString(e.inflow),
     outflow |-> bigintToDecimalString(e.outflow),
     net_flow |-> bigintToDecimalString(e.inflow - e.outflow),
     transfer_count |-> e.count,
     chains |-> SortedChains(e.chains)]

\* a comparator on the signed net flow
flowCmp_Signed(a, b) ==
    IF net(b) > net(a) THEN 1 ELSE IF net(b) < net(a) THEN -1 ELSE 0

\* a buildTop that ranks by signed net flow
buildTop_Signed(flows) ==
    LET top == Slice(Sort(flows, [p \in Range(flows) \X Range(flows) |->
                                  flowCmp_Signed(p[1], p[2])]), TOP_N)
    IN  [i \in 1..Len(top) |-> FlowRow(top[i])]

buildTop(flows) ==
    LET top == Slice(Sort(flows, [p \in Range(flows) \X Range(flows) |->
                                  flowCmp(p[1], p[2])]), TOP_N)
    IN  [i \in 1..Len(top) |-> FlowRow(top[i])]

\* [...allAddresses] after the two loops of lines 287-289
RECURSIVE AddAll(_, _)
AddAll(list, rows) ==
    IF Len(rows) = 0 THEN list
    ELSE AddAll(IF Head(rows).address \in Range(list) THEN list
                ELSE Append(list, Head(rows).address),
                Tail(rows))

allAddresses(rows7d, rows30d) == AddAll(AddAll(<<>>, rows7d), rows30d)

---------------------------------------------------------------------------
(* fetchBalances, fetchTopHolders, addBalances and the summary.            *)

\* a Map<string, bigint> is a function on its keys
EmptyMap == <<>>

\* balanceMap.get(addr) || 0n
BalanceOrDefault(map, addr) == IF addr \in DOMAIN map THEN map[addr] ELSE 0

\* the loop of lines 93-97 over the rows of one answer; the sums do not
\* depend on the order of the rows
RECURSIVE MergeBalances(_, _)
MergeBalances(map, rows) ==
    IF rows = {} THEN map
    ELSE LET acct == CHOOSE r \in rows : TRUE
             addr == toLowerCase(acct.address)
             sum  == BalanceOrDefault(map, addr) + BigInt(acct.balance)
         IN  MergeBalances(
                 [a \in DOMAIN map \cup {addr} |->
                     IF a = addr THEN sum ELSE map[a]],
                 rows \ {acct})

\* addresses.slice(i, i + batchSize)
Batch(list, i) ==
    IF i >= Len(list) THEN <<>> ELSE SubSeq(list, i + 1, Min(i + batchSize, Len(list)))

\* the loop of lines 135-150 over one page
RECURSIVE MergeHolders(_, _)
MergeHolders(map, page) ==
    IF Len(page) = 0 THEN map
    ELSE LET acct  == Head(page)
             addr  == toLowerCase(acct.address)
             chain == chainName(acct.chainId)
             entry ==
                 IF MapHas(map, addr)
                 THEN [MapGet(map, addr) EXCEPT
                          !.balance = @ + BigInt(acct.balance),
                          !.transferCount = @ + acct.transferCount,
                          !.chains = @ \cup {chain}]
                 ELSE [address |-> addr, balance |-> BigInt(acct.balance),
                       transferCount |-> acct.transferCount, chains |-> {chain}]
         IN  MergeHolders(MapSet(map, entry), Tail(page))

\* the comparator of fetchTopHolders
holderCmp(a, b) ==
    IF b.balance > a.balance THEN 1 ELSE IF b.balance < a.balance THEN -1 ELSE 0

\* the return value of fetchTopHolders (lines 155-163)
TopHolderRows(map) ==
    LET top == Slice(Sort(map, [p \in Range(map) \X Range(map) |->
                                  holderCmp(p[1], p[2])]), TOP_N)
    IN  [i \in 1..Len(top) |->
            [address |-> top[i].address,
             balance |-> bigintToDecimalString(top[i].balance),
             transfer_count |-> top[i].transferCount,
             chains |-> SortedChains(top[i].chains)]]

\* an addBalances that leaves the balance out when the map has no entry
addBalances_NoDefault(rows, map) ==
    [i \in 1..Len(rows) |->
        IF rows[i].address \in DOMAIN map
        THEN [address |-> rows[i].address, inflow |-> rows[i].inflow,
              outflow |-> rows[i].outflow, net_flow |-> rows[i].net_flow,
              transfer_count |-> rows[i].transfer_count,
              chains |-> rows[i].chains,
              balance |-> bigintToDecimalString(map[rows[i].address])]
        ELSE rows[i]]

addBalances(rows, map) ==
    [i \in 1..Len(rows) |->
        [address |-> rows[i].address, inflow |-> rows[i].inflow,
         outflow |-> rows[i].outflow, net_flow |-> rows[i].net_flow,
         transfer_count |-> rows[i].transfer_count, chains |-> rows[i].chains,
         balance |->
            bigintToDecimalString(BalanceOrDefault(map, rows[i].address))]]

\* data/labels.json as parsed: its keys need not be lowercase
LabelsFile == [k \in {"0xA"} |-> "exchange"]

\* Object.fromEntries(Object.entries(raw).map(([k, v]) => [k.toLowerCase(), v]))
LowercaseKeys(file) ==
    [a \in {toLowerCase(k) : k \in DOMAIN file} |->
        file[CHOOSE k \in DOMAIN file : toLowerCase(k) = a]]

\* the document at OUTPUT_PATH before the run
PreviousArtifact ==
    [top_7d |-> <<>>, top_30d |-> <<>>, top_holders |-> <<>>,
     labels |-> EmptyMap, synced_at |-> now - DAY, total_transfers |-> 0]

\* the object of lines 318-325
Summary ==
    [top_7d |-> addBalances(top7d, balances),
     top_30d |-> addBalances(top30d, balances),
     top_holders |-> topHolders,
     labels |-> labels,
     synced_at |-> now,
     total_transfers |-> totalTransfers]

---------------------------------------------------------------------------
(* The steps of main.                                                      *)

\* the export script is started on the ledger as it is
StartExport ==
    /\ pc = "index"
    /\ pc' = "transfers"
    /\ UNCHANGED <<ledgerVars, scanVars, flowVars, topVars, balVars,
                   holderVars, outVars, codecVars>>

\* one turn of the loop of lines 176-201
FetchTransfers ==
    /\ pc = "transfers"
    /\ \E batch \in RecentTransfers(cutoff30d, TRANSFER_LIMIT, offset) :
          /\ allTransfers' = allTransfers \o batch
          /\ IF Len(batch) < TRANSFER_LIMIT
             THEN pc' = "count" /\ offset' = offset
             ELSE pc' = pc /\ offset' = offset + TRANSFER_LIMIT
    /\ UNCHANGED <<ledgerVars, totalTransfers, flowVars, topVars, balVars,
                   holderVars, outVars, codecVars>>

\* graphqlQuery throws (lines 41-48) on a response that is not ok or that
\* carries errors
graphqlQueryThrows(respOk, hasErrors) == ~respOk \/ hasErrors

\* a run that logs a failed holder query and goes on with what it has
QueryFails_GoesOn ==
    /\ pc \in {"transfers", "count", "balances", "holders"}
    /\ \E respOk, hasErrors \in BOOLEAN : graphqlQueryThrows(respOk, hasErrors)
    /\ pc' = IF pc = "holders" THEN "labels" ELSE "failed"
    /\ failedAt' = pc
    /\ UNCHANGED <<ledgerVars, scanVars, flowVars, topVars, balVars,
                   holderVars, labels, output, written, codecVars>>

\* a query of the run throws: main rejects and the process exits with 1
QueryFails ==
    /\ pc \in {"transfers", "count", "balances", "holders"}
    /\ \E respOk, hasErrors \in BOOLEAN : graphqlQueryThrows(respOk, hasErrors)
    /\ pc' = "failed"
    /\ failedAt' = pc
    /\ UNCHANGED <<ledgerVars, scanVars, flowVars, topVars, balVars,
                   holderVars, labels, output, written, codecVars>>

\* lines 204-217
FetchCount ==
    /\ pc = "count"
    /\ totalTransfers' = TotalCount
    /\ pc' = "aggregate"
    /\ UNCHANGED <<ledgerVars, allTransfers, offset, flowVars, topVars,
                   balVars, holderVars, outVars, codecVars>>

\* a loop that gives each map the other window's cutoff
AggregateStep_SwappedCutoffs ==
    /\ pc = "aggregate"
    /\ idx < Len(allTransfers)
    /\ flows30d' = FlowStep(flows30d, cutoff7d, allTransfers[idx + 1])
    /\ flows7d' = FlowStep(flows7d, cutoff30d, allTransfers[idx + 1])
    /\ idx' = idx + 1
    /\ UNCHANGED <<ledgerVars, pc, scanVars, topVars, balVars, holderVars,
                   outVars, codecVars>>

\* one turn of the loop of lines 224-262
AggregateStep ==
    /\ pc = "aggregate"
    /\ idx < Len(allTransfers)
    /\ flows30d' = FlowStep(flows30d, cutoff30d, allTransfers[idx + 1])
    /\ flows7d' = FlowStep(flows7d, cutoff7d, allTransfers[idx + 1])
    /\ idx' = idx + 1
    /\ UNCHANGED <<ledgerVars, pc, scanVars, topVars, balVars, holderVars,
                   outVars, codecVars>>

\* lines 283-289; fetchBalances sends no query for an empty list
BuildTops ==
    /\ pc = "aggregate"
    /\ idx = Len(allTransfers)
    /\ top7d' = buildTop(flows7d)
    /\ top30d' = buildTop(flows30d)
    /\ addresses' = allAddresses(top7d', top30d')
    /\ pc' = IF Len(addresses') = 0 THEN "holders" ELSE "balances"
    /\ UNCHANGED <<ledgerVars, scanVars, flowVars, batchI, balances,
                   holderVars, outVars, codecVars>>

\* one turn of the loop of lines 77-98
FetchBalancesBatch ==
    /\ pc = "balances"
    /\ balances' = MergeBalances(balances, AccountBalances(Batch(addresses, batchI)))
    /\ batchI' = batchI + batchSize
    /\ pc' = IF batchI' < Len(addresses) THEN "balances" ELSE "holders"
    /\ UNCHANGED <<ledgerVars, scanVars, flowVars, topVars, addresses,
                   holderVars, outVars, codecVars>>

\* one turn of the loop of lines 114-153, and the return after the last
FetchHolders ==
    /\ pc = "holders"
    /\ \E page \in TopAccounts(hLimit, hOffset) :
          /\ holderMap' = MergeHolders(holderMap, page)
          /\ IF Len(page) < hLimit
             THEN /\ pc' = "labels"
                  /\ hOffset' = hOffset
                  /\ topHolders' = TopHolderRows(holderMap')
             ELSE /\ pc' = pc
                  /\ hOffset' = hOffset + hLimit
                  /\ topHolders' = topHolders
    /\ UNCHANGED <<ledgerVars, scanVars, flowVars, topVars, balVars, hLimit,
                   outVars, codecVars>>

\* lines 308-316: a labels file that cannot be read leaves labels empty
LoadLabels ==
    /\ pc = "labels"
    /\ \E readable \in BOOLEAN :
          labels' = IF readable THEN LowercaseKeys(LabelsFile) ELSE EmptyMap
    /\ pc' = "write"
    /\ UNCHANGED <<ledgerVars, scanVars, flowVars, topVars, balVars,
                   holderVars, output, written, failedAt, codecVars>>

\* lines 318-327
WriteSummary ==
    /\ pc = "write"
    /\ output' = Summary
    /\ written' = written + 1
    /\ pc' = "done"
    /\ UNCHANGED <<ledgerVars, scanVars, flowVars, topVars, balVars,
                   holderVars, labels, failedAt, codecVars>>

\* the variables of main before its first statement
ScanInit == allTransfers = <<>> /\ offset = 0 /\ totalTransfers = 0

FlowInit == flows7d = <<>> /\ flows30d = <<>> /\ idx = 0

TopInit == top7d = <<>> /\ top30d = <<>>

BalInit == addresses = <<>> /\ batchI = 0 /\ balances = EmptyMap

HolderInit ==
    holderMap = <<>> /\ hOffset = 0 /\ hLimit = HOLDER_LIMIT /\ topHolders = <<>>

OutInit ==
    labels = EmptyMap /\ output = PreviousArtifact /\ written = 0
        /\ failedAt = "none"

CodecInit == raw = 0 /\ str = <<>>

LedgerInit == Transfer = {} /\ Account = {} /\ blockNumber = 0

\* an empty ledger and no script running
Init ==
    /\ LedgerInit
    /\ pc = "index"
    /\ ScanInit /\ FlowInit /\ TopInit /\ BalInit /\ HolderInit /\ OutInit
    /\ CodecInit

Next ==
    \/ \E event \in PipelineEvents : Handler(event)
    \/ StartExport
    \/ FetchTransfers
    \/ QueryFails
    \/ FetchCount
    \/ AggregateStep
    \/ BuildTops
    \/ FetchBalancesBatch
    \/ FetchHolders
    \/ LoadLabels
    \/ WriteSummary

Spec == Init /\ [][Next]_vars

---------------------------------------------------------------------------
(* The indexer alone, on the wider set of events.                          *)

NextLedger == \E event \in LedgerEvents : Handler(event)

SpecLedger == Init /\ [][NextLedger]_vars

---------------------------------------------------------------------------
(* The aggregation loop and buildTop on every list the transfer scan can   *)
(* hand over: rows at or after the 30-day cutoff, ascending in             *)
(* blockTimestamp.                                                         *)

RetrievedRows ==
    [chainId : ChainIds, blockTimestamp : {cutoff30d, cutoff7d},
     from : {ZERO_ADDRESS, "0xa", "0xb"}, to : {ZERO_ADDRESS, "0xa", "0xb"},
     value : {IntToString(v) : v \in Values}]

\* the lists of up to MaxEvents rows, each row no earlier than the one
\* before it
RetrievedLists ==
    {l \in UNION {[1..n -> RetrievedRows] : n \in 0..MaxEvents} :
        \A i \in 1..(Len(l) - 1) :
            l[i].blockTimestamp <= l[i + 1].blockTimestamp}

InitFlows ==
    /\ LedgerInit
    /\ pc = "aggregate"
    /\ allTransfers \in RetrievedLists
    /\ offset = 0
    /\ totalTransfers = Len(allTransfers)
    /\ FlowInit /\ TopInit /\ BalInit /\ HolderInit /\ OutInit /\ CodecInit

NextFlows == AggregateStep \/ BuildTops

SpecFlows == InitFlows /\ [][NextFlows]_vars

---------------------------------------------------------------------------
(* buildTop on flow maps of every shape.                                   *)

AddressPool == <<"0xa", "0xb", "0xc", "0xd", "0xe", "0xf">>

Amounts == {0, 1, 3}

\* the map of n entries, keyed by the first n addresses of the pool in
\* insertion order, with the amounts f gives each entry
FlowMapOf(n, f) ==
    [i \in 1..n |->
        [address |-> AddressPool[i], inflow |-> f[i][1], outflow |-> f[i][2],
         count |-> 1, chains |-> {"ethereum"}]]

InitTop ==
    /\ LedgerInit
    /\ pc = "rank"
    /\ ScanInit
    /\ flows7d = <<>> /\ idx = 0
    /\ \E n \in 0..MaxFlowLen :
           \E f \in [1..n -> Amounts \X Amounts] : flows30d = FlowMapOf(n, f)
    /\ TopInit /\ BalInit /\ HolderInit /\ OutInit /\ CodecInit

\* const top30d = buildTop(flows30d)
RankFlows ==
    /\ pc = "rank"
    /\ top30d' = buildTop(flows30d)
    /\ pc' = "ranked"
    /\ UNCHANGED <<ledgerVars, scanVars, flowVars, top7d, balVars, holderVars,
                   outVars, codecVars>>

SpecTop == InitTop /\ [][RankFlows]_vars

---------------------------------------------------------------------------
(* fetchTopHolders and fetchBalances on Account tables of every shape.     *)

AccountKeys == ChainIds \X {"0xa", "0xb"}

\* the tables with a row for some of the keys and a balance among bals
AccountTables(bals) ==
    UNION {{{[id |-> k, chainId |-> k[1], address |-> k[2], balance |-> b[k],
              transferCount |-> 1, lastUpdatedBlock |-> 1,
              lastUpdatedTimestamp |-> now - DAY] : k \in present} :
            b \in [present -> bals]} : present \in SUBSET AccountKeys}

\* page sizes: one row, the program's limit, more than the table holds
PageSizes == {1, HOLDER_LIMIT, Cardinality(AccountKeys) + 1}

InitHolders ==
    /\ Transfer = {} /\ blockNumber = 0
    /\ Account \in AccountTables({0, 100, 200})
    /\ pc = "holders"
    /\ ScanInit /\ FlowInit /\ TopInit /\ BalInit
    /\ holderMap = <<>> /\ hOffset = 0 /\ topHolders = <<>>
    /\ hLimit \in PageSizes
    /\ OutInit /\ CodecInit

SpecHolders == InitHolders /\ [][FetchHolders]_vars

---------------------------------------------------------------------------
(* The transfer scan of main on Transfer tables of every shape.            *)

\* block timestamps: one before the 30-day cutoff, the others at or after it
ScanTimestamps == {cutoff30d - DAY, cutoff30d, cutoff7d, now - 2 * DAY, now - DAY}

\* the table of n transfers, the k-th sent by the k-th address of the pool
\* at the timestamp ts gives it
StoredTransfers(n, ts) ==
    {[id |-> <<1, k, 0>>, chainId |-> 1, blockNumber |-> k,
      blockTimestamp |-> ts[k], logIndex |-> 0, from |-> AddressPool[k],
      to |-> "0xb", value |-> 100] : k \in 1..n}

InitScan ==
    /\ Account = {}
    /\ \E n \in 0..MaxStored :
          /\ blockNumber = n
          /\ \E ts \in [1..n -> ScanTimestamps] : Transfer = StoredTransfers(n, ts)
    /\ pc = "transfers"
    /\ ScanInit /\ FlowInit /\ TopInit /\ BalInit /\ HolderInit /\ OutInit
    /\ CodecInit

SpecScan == InitScan /\ [][FetchTransfers]_vars

\* the sequences of distinct elements of S, up to length n
DistinctSeqs(S, n) ==
    {l \in UNION {[1..k -> S] : k \in 0..n} :
        \A i, j \in 1..Len(l) : i # j => l[i] # l[j]}

\* ranking rows for the addresses of list
RowsFor(list) ==
    [i \in 1..Len(list) |->
        FlowRow([address |-> list[i], inflow |-> 100, outflow |-> 0,
                 count |-> 1, chains |-> {"ethereum"}])]

\* main after line 289, for rankings over any addresses; 0xc has no Account row
InitEnrich ==
    /\ Transfer = {} /\ blockNumber = 0
    /\ Account \in AccountTables({0, 150})
    /\ ScanInit /\ FlowInit
    /\ \E l7, l30 \in DistinctSeqs({"0xa", "0xb", "0xc"}, TOP_N) :
          /\ top7d = RowsFor(l7)
          /\ top30d = RowsFor(l30)
          /\ addresses = allAddresses(RowsFor(l7), RowsFor(l30))
          /\ pc = IF Len(l7) + Len(l30) = 0 THEN "holders" ELSE "balances"
    /\ batchI = 0 /\ balances = EmptyMap
    /\ HolderInit /\ OutInit /\ CodecInit

NextEnrich ==
    \/ FetchBalancesBatch
    \/ QueryFails
    \/ FetchHolders
    \/ LoadLabels
    \/ WriteSummary

SpecEnrich == InitEnrich /\ [][NextEnrich]_vars

---------------------------------------------------------------------------
(* bigintToDecimalString on every integer up to MaxRaw in magnitude.       *)

InitCodec ==
    /\ LedgerInit
    /\ pc = "codec"
    /\ ScanInit /\ FlowInit /\ TopInit /\ BalInit /\ HolderInit /\ OutInit
    /\ raw \in (-MaxRaw)..MaxRaw
    /\ str = <<>>

\* str = bigintToDecimalString(raw)
Convert ==
    /\ pc = "codec"
    /\ str' = bigintToDecimalString(raw)
    /\ pc' = "converted"
    /\ UNCHANGED <<ledgerVars, scanVars, flowVars, topVars, balVars,
                   holderVars, outVars, raw>>

SpecCodec == InitCodec /\ [][Convert]_vars

---------------------------------------------------------------------------
(* Properties.                                                             *)

\* the place of the row's address in the flow map
PlaceIn(m, row) == MapIndex(m, row.address)

\* entry i of map m ranks before entry j: larger |inflow - outflow|, or the
\* same and inserted earlier
RanksBefore(m, i, j) ==
    \/ absNet(m[i]) > absNet(m[j])
    \/ absNet(m[i]) = absNet(m[j]) /\ i < j

\* C1: buildTop(flows30d) has min(TOP_N, n) rows, the rows are rows of distinct
\* entries of the map in rank order (by |inflow - outflow| descending, equal
\* ones in insertion order), every entry left out ranks after every row, and
\* a map whose |net flow| strictly decreases in insertion order gives its
\* first min(TOP_N, n) addresses in that order.
C1_BuildTopRanking ==
    pc = "ranked" =>
        LET m == flows30d
            n == Len(m)
            k == Len(top30d)
        IN  /\ k = Min(TOP_N, n)
            /\ \A i \in 1..k :
                  /\ MapHas(m, top30d[i].address)
                  /\ top30d[i] = FlowRow(MapGet(m, top30d[i].address))
            /\ \A i, j \in 1..k :
                  i < j => RanksBefore(m, PlaceIn(m, top30d[i]), PlaceIn(m, top30d[j]))
            /\ \A e \in 1..n :
                  (\A i \in 1..k : PlaceIn(m, top30d[i]) # e) =>
                      \A i \in 1..k : RanksBefore(m, PlaceIn(m, top30d[i]), e)
            /\ (\A i \in 1..(n - 1) : absNet(m[i]) > absNet(m[i + 1])) =>
                  \A i \in 1..k : top30d[i].address = m[i].address

\* a map larger than TOP_N was ranked, an entry left out has the same
\* |net flow| as the last row, and the first row is not the first entry
C1_Witness ==
    /\ pc = "ranked"
    /\ Len(flows30d) > TOP_N
    /\ Len(top30d) = TOP_N
    /\ top30d[1].address # flows30d[1].address
    /\ \E e \in 1..Len(flows30d) :
          /\ \A i \in 1..Len(top30d) : top30d[i].address # flows30d[e].address
          /\ absNet(flows30d[e]) = absNet(MapGet(flows30d, top30d[TOP_N].address))

\* the digits after the decimal point of a decimal string, or <<>>
FractionOf(s) ==
    IF PointAt(s) = 0 THEN <<>> ELSE SubSeq(s, PointAt(s) + 1, Len(s))

\* C10: for raw >= 0 the string of bigintToDecimalString(raw) reads back as
\* raw at DECIMALS fractional digits; raw = 0 gives exactly "0"; the string
\* has a fractional part only when raw has one, and that part does not end
\* in a zero.
C10_CodecRoundTrip ==
    (pc = "converted" /\ raw >= 0) =>
        /\ fromDecimalString(str) = raw
        /\ raw = 0 => str = <<"0">>
        /\ (raw % DECIMALS_DIVISOR = 0) <=> (PointAt(str) = 0)
        /\ PointAt(str) # 0 =>
              /\ Len(FractionOf(str)) \in 1..DECIMALS
              /\ str[Len(str)] # "0"

\* a value with a whole part whose fraction needs a leading zero
C10_Witness ==
    /\ pc = "converted"
    /\ raw >= DECIMALS_DIVISOR
    /\ raw % DECIMALS_DIVISOR # 0
    /\ 10 * (raw % DECIMALS_DIVISOR) < DECIMALS_DIVISOR
    /\ fromDecimalString(str) = raw

\* the sum of the values of a set of Transfer rows
RECURSIVE SumValues(_)
SumValues(S) ==
    IF S = {} THEN 0
    ELSE LET t == CHOOSE x \in S : TRUE IN t.value + SumValues(S \ {t})

\* what the stored transfers give (chain, address): received minus sent
NetOfTransfers(chainId, addr) ==
    SumValues({t \in Transfer : t.chainId = chainId /\ t.to = addr})
        - SumValues({t \in Transfer : t.chainId = chainId /\ t.from = addr})

\* every Account row carries the net of the stored transfers of its chain
\* and address
BalancesMatchTransfers ==
    \A a \in Account :
        /\ a.id = <<a.chainId, a.address>>
        /\ a.balance = NetOfTransfers(a.chainId, a.address)

\* a step changes the balance of (or creates) an Account row only when the
\* transfer it stores is on the row's chain and names the row's address
OnlyOwnTransfersChangeBalance ==
    \A a \in Account' :
        (\A b \in Account : b.id = a.id => b.balance # a.balance) =>
            \E t \in Transfer' \ Transfer :
                /\ t.chainId = a.chainId
                /\ (t.from = a.address \/ t.to = a.address)

\* C4: after any sequence of handled events every Account row's balance is
\* the sum of the stored transfers to its address minus those from it, on
\* its chain, and only transfers of its chain and address change it.
C4_BalanceIsNetOfTransfers ==
    [](BalancesMatchTransfers) /\ [][OnlyOwnTransfersChangeBalance]_vars

\* a mint and a transfer from an address to itself have been handled
C4_Witness ==
    /\ \E t \in Transfer : t.from = ZERO_ADDRESS /\ t.to # ZERO_ADDRESS
    /\ \E t \in Transfer :
          /\ t.from = t.to /\ t.from # ZERO_ADDRESS
          /\ \E a \in Account : a.id = <<t.chainId, t.from>> /\ a.balance > 0

\* the non-zero parties of the transfers the aggregation loop has done in
\* the window that starts at cutoff
PartiesDone(cutoff) ==
    {a \in UNION {{toLowerCase(allTransfers[i].from), toLowerCase(allTransfers[i].to)} :
                    i \in {j \in 1..idx : allTransfers[j].blockTimestamp >= cutoff}} :
        a # ZERO_ADDRESS}

RowAddresses(rows) == {rows[i].address : i \in 1..Len(rows)}

\* C3: the zero address has no Account row, no flow entry and no row in
\* top_7d, top_30d or top_holders, in the script or in the written
\* document; the flow entries are exactly those of the non-zero sides of the
\* transfers aggregated so far.
C3_ZeroAddressNeverRanked ==
    /\ \A a \in Account : a.address # ZERO_ADDRESS
    /\ MapKeys(flows30d) = PartiesDone(cutoff30d)
    /\ MapKeys(flows7d) = PartiesDone(cutoff7d)
    /\ ZERO_ADDRESS \notin
          RowAddresses(top7d) \cup RowAddresses(top30d) \cup MapKeys(holderMap)
              \cup RowAddresses(topHolders) \cup Range(addresses)
              \cup DOMAIN balances
    /\ ZERO_ADDRESS \notin
          RowAddresses(output.top_7d) \cup RowAddresses(output.top_30d)
              \cup RowAddresses(output.top_holders)

\* a document with flow rows and holder rows was written from a ledger that
\* holds a mint and a burn inside the 7-day window
C3_Witness ==
    /\ pc = "done"
    /\ \E i \in 1..Len(allTransfers) :
          /\ allTransfers[i].from = ZERO_ADDRESS
          /\ allTransfers[i].blockTimestamp >= cutoff7d
    /\ \E i \in 1..Len(allTransfers) :
          /\ allTransfers[i].to = ZERO_ADDRESS
          /\ allTransfers[i].from # ZERO_ADDRESS
          /\ allTransfers[i].blockTimestamp >= cutoff7d
    /\ output.top_7d # <<>>
    /\ output.top_holders # <<>>

\* the aggregation loop of the run has ended
AggregationDone ==
    \/ pc = "aggregate" /\ idx = Len(allTransfers)
    \/ pc \in {"balances", "holders", "labels", "write", "done"}
    \/ pc = "failed" /\ failedAt \in {"balances", "holders"}

\* the ledger holds exactly the two transfers of the worked example
ExampleLedger ==
    /\ Cardinality(Transfer) = 2
    /\ \E t \in Transfer :
          /\ t.from = "0xa" /\ t.to = "0xb" /\ t.value = 100
          /\ t.blockTimestamp = now - DAY
    /\ \E t \in Transfer :
          /\ t.from = "0xb" /\ t.to = "0xc" /\ t.value = 40
          /\ t.blockTimestamp = now - 20 * DAY

\* the entry of addr in flows has these sums
HasFlow(flows, addr, inflow, outflow) ==
    /\ MapHas(flows, addr)
    /\ MapGet(flows, addr).inflow = inflow
    /\ MapGet(flows, addr).outflow = outflow
    /\ net(MapGet(flows, addr)) = inflow - outflow

\* the 30-day flows of the worked example
Example30d ==
    /\ MapKeys(flows30d) = {"0xa", "0xb", "0xc"}
    /\ HasFlow(flows30d, "0xa", 0, 100)
    /\ HasFlow(flows30d, "0xb", 100, 40)
    /\ HasFlow(flows30d, "0xc", 40, 0)

\* C5 as stated: in the 7-day flows B has inflow 100, outflow 40, net 60.
C5_AsStated ==
    (AggregationDone /\ ExampleLedger) =>
        /\ MapKeys(flows7d) = {"0xa", "0xb"}
        /\ HasFlow(flows7d, "0xa", 0, 100)
        /\ HasFlow(flows7d, "0xb", 100, 40)
        /\ Example30d

\* C5, amended: given exactly A -> B of 100 at now-1d and B -> C of 40 at
\* now-20d, the 7-day flows are A = {outflow 100} and B = {inflow 100,
\* outflow 0, net 100} with no entry for C (B -> C is outside the 7 days),
\* and the 30-day flows are A = {outflow 100}, B = {inflow 100, outflow 40,
\* net 60}, C = {inflow 40}.
C5_WorkedExample ==
    (AggregationDone /\ ExampleLedger) =>
        /\ MapKeys(flows7d) = {"0xa", "0xb"}
        /\ HasFlow(flows7d, "0xa", 0, 100)
        /\ HasFlow(flows7d, "0xb", 100, 0)
        /\ Example30d

\* the export has run to its end on the ledger of the worked example
C5_Witness == pc = "done" /\ ExampleLedger /\ Len(allTransfers) = 2

\* C6: the run writes the document at most once; it has written exactly
\* when it reached its end, which it does only with no query failed and
\* every scan, batch and page done; a run that a failed query ended has
\* written nothing and the previous artifact is in place; once the queries
\* are done the labels are loaded and the document is written, whether or
\* not the labels file could be read; the written document is the summary,
\* with the labels of the file or, when the file could not be read, with no
\* labels.
C6_WriteOnceAfterAllQueries ==
    /\ written \in {0, 1}
    /\ written = 1 <=> pc = "done"
    /\ written = 0 => output = PreviousArtifact
    /\ pc = "failed" <=> failedAt # "none"
    /\ failedAt \in {"none", "transfers", "count", "balances", "holders"}
    /\ pc = "done" =>
          /\ output = Summary
          /\ idx = Len(allTransfers)
          /\ totalTransfers = TotalCount
          /\ batchI >= Len(addresses)
          /\ output.labels \in {EmptyMap, LowercaseKeys(LabelsFile)}
    /\ pc \in {"labels", "write"} => failedAt = "none"
    /\ pc = "labels" => ENABLED LoadLabels
    /\ pc = "write" => ENABLED WriteSummary

\* the labels file could not be read and the document was written with an
\* empty labels map after two balance batches
C6_Witness ==
    /\ pc = "done"
    /\ written = 1
    /\ output.labels = EmptyMap
    /\ output.top_30d # <<>>
    /\ batchI > batchSize

\* the transfer the aggregation loop handles next
NextTransfer == allTransfers[idx + 1]

\* the loop is about to handle a transfer from a non-zero address to itself
SelfTransferNext ==
    /\ pc = "aggregate"
    /\ idx < Len(allTransfers)
    /\ toLowerCase(NextTransfer.from) = toLowerCase(NextTransfer.to)
    /\ toLowerCase(NextTransfer.from) # ZERO_ADDRESS

\* from map old to map new the entry of addr gained value as inflow and as
\* outflow, its net flow stayed, and no other entry changed
SelfTransferEffect(old, new, addr, value) ==
    /\ MapHas(new, addr)
    /\ MapGet(new, addr).inflow = FlowEntryOrNew(old, addr).inflow + value
    /\ MapGet(new, addr).outflow = FlowEntryOrNew(old, addr).outflow + value
    /\ net(MapGet(new, addr)) = net(FlowEntryOrNew(old, addr))
    /\ MapKeys(new) = MapKeys(old) \cup {addr}
    /\ \A k \in MapKeys(old) \ {addr} : MapGet(new, k) = MapGet(old, k)

\* C8: the step of the aggregation loop on a transfer whose sender and
\* receiver are the same non-zero address adds the value to both the inflow
\* and the outflow of that address in every window the transfer is inside,
\* leaves its net flow as it was, changes no other entry, and leaves a
\* window the transfer is outside of unchanged.
C8_SelfTransferNetZero ==
    [][(SelfTransferNext /\ idx' = idx + 1) =>
          LET addr  == toLowerCase(NextTransfer.from)
              value == BigInt(NextTransfer.value)
          IN  /\ IF NextTransfer.blockTimestamp >= cutoff30d
                 THEN SelfTransferEffect(flows30d, flows30d', addr, value)
                 ELSE flows30d' = flows30d
              /\ IF NextTransfer.blockTimestamp >= cutoff7d
                 THEN SelfTransferEffect(flows7d, flows7d', addr, value)
                 ELSE flows7d' = flows7d]_vars

\* the loop has just handled a transfer of an address to itself, inside the
\* 7-day window, for an address that had a net flow, beside another entry
C8_Witness ==
    /\ pc = "aggregate"
    /\ idx >= 2
    /\ allTransfers[idx].from = allTransfers[idx].to
    /\ allTransfers[idx].from # ZERO_ADDRESS
    /\ allTransfers[idx].blockTimestamp >= cutoff7d
    /\ MapHas(flows7d, allTransfers[idx].from)
    /\ net(MapGet(flows7d, allTransfers[idx].from)) # 0
    /\ MapGet(flows7d, allTransfers[idx].from).outflow = BigInt(allTransfers[idx].value)
    /\ Cardinality(MapKeys(flows7d)) >= 2

\* C9: every address with a 7-day flow entry of nonzero count has a 30-day
\* flow entry whose inflow, outflow and count are each at least those of
\* the 7-day entry, during the aggregation loop and after it.
C9_SevenDayWithinThirtyDay ==
    \A a \in MapKeys(flows7d) :
        MapGet(flows7d, a).count # 0 =>
            /\ MapHas(flows30d, a)
            /\ MapGet(flows30d, a).inflow >= MapGet(flows7d, a).inflow
            /\ MapGet(flows30d, a).outflow >= MapGet(flows7d, a).outflow
            /\ MapGet(flows30d, a).count >= MapGet(flows7d, a).count
            /\ MapGet(flows7d, a).chains \subseteq MapGet(flows30d, a).chains

\* after the loop an address has a 7-day entry and a larger 30-day entry,
\* and another address has a 30-day entry only
C9_Witness ==
    /\ pc # "aggregate"
    /\ \E a \in MapKeys(flows7d) :
          /\ MapGet(flows7d, a).count # 0
          /\ MapGet(flows30d, a).count > MapGet(flows7d, a).count
          /\ MapGet(flows30d, a).inflow > MapGet(flows7d, a).inflow
    /\ MapKeys(flows30d) # MapKeys(flows7d)

\* the sum of the balances of a set of Account rows
RECURSIVE SumBalances(_)
SumBalances(S) ==
    IF S = {} THEN 0
    ELSE LET a == CHOOSE x \in S : TRUE IN a.balance + SumBalances(S \ {a})

\* the Account rows of an address, on every chain
RowsOf(addr) == {a \in Account : a.address = addr}

\* the Account rows of an address that the TopAccounts query selects
PositiveRowsOf(addr) == {a \in RowsOf(addr) : a.balance > 0}

\* the holder scan has ended
HolderScanDone == pc \in {"labels", "write", "done"}

\* C2 as stated: for every page size the merged balance of every address
\* with a row of positive balance is the sum of those rows, and no other
\* address is merged.
C2_AsStated ==
    HolderScanDone =>
        /\ MapKeys(holderMap) = {a.address : a \in {r \in Account : r.balance > 0}}
        /\ \A k \in MapKeys(holderMap) :
              MapGet(holderMap, k).balance = SumBalances(PositiveRowsOf(k))

\* no two rows that the TopAccounts query selects have the same balance
NoEqualBalances ==
    \A a, b \in {r \in Account : r.balance > 0} : a # b => a.balance # b.balance

\* The merge is right for every page size when the order of the rows is
\* fixed by their balances, and for a page that holds every row.
C2_HoldsWithFixedOrder ==
    (NoEqualBalances \/ hLimit > Cardinality(AccountKeys)) => C2_AsStated

\* fetchBalances has returned
BalancesFetched ==
    \/ pc \in {"holders", "labels", "write", "done"}
    \/ pc = "failed" /\ failedAt = "holders"

\* every row carries a balance field, the decimal string of the sum of the
\* address's Account rows
RowsCarryBalance(rows) ==
    \A i \in 1..Len(rows) :
        /\ "balance" \in DOMAIN rows[i]
        /\ rows[i].balance =
              bigintToDecimalString(SumBalances(RowsOf(rows[i].address)))

\* C7 as stated: the map fetchBalances returns holds a zero for a requested
\* address with no Account row.
C7_AsStated ==
    BalancesFetched =>
        \A a \in Range(addresses) :
            /\ a \in DOMAIN balances
            /\ balances[a] = SumBalances(RowsOf(a))

\* C7, amended: the map fetchBalances returns holds, for every requested
\* address with an Account row, the sum of its rows' balances across chains
\* and batches, and holds no entry for any other address; the zero for an
\* address with no row is supplied where the map is read (balances.get(a)
\* || 0n), so that every row of top_7d and top_30d in the document carries a
\* balance field, "0" for an address with no Account row.
C7_ZeroBalanceDefault ==
    /\ BalancesFetched =>
          /\ DOMAIN balances = {a \in Range(addresses) : RowsOf(a) # {}}
          /\ \A a \in DOMAIN balances : balances[a] = SumBalances(RowsOf(a))
          /\ \A a \in Range(addresses) :
                RowsOf(a) = {} => BalanceOrDefault(balances, a) = 0
    /\ pc = "done" =>
          /\ RowsCarryBalance(output.top_7d)
          /\ RowsCarryBalance(output.top_30d)
          /\ \A i \in 1..Len(output.top_7d) :
                RowsOf(output.top_7d[i].address) = {} =>
                    output.top_7d[i].balance = <<"0">>

\* a document was written whose rankings name an address with no Account
\* row and an address with rows on two chains, fetched in two batches
C7_Witness ==
    /\ pc = "done"
    /\ Len(addresses) > batchSize
    /\ \E i \in 1..Len(output.top_7d) : RowsOf(output.top_7d[i].address) = {}
    /\ \E i \in 1..Len(output.top_30d) :
          /\ Cardinality(RowsOf(output.top_30d[i].address)) = 2
          /\ output.top_30d[i].balance # <<"0">>

---------------------------------------------------------------------------
(* The transfer scan.                                                      *)

\* the stored transfers the RecentTransfers query selects
MatchingTransfers == {t \in Transfer : t.blockTimestamp >= cutoff30d}

\* how many times a row occurs in a list of rows
TimesIn(list, row) == Cardinality({i \in 1..Len(list) : list[i] = row})

\* the transfer scan has ended
TransferScanDone == pc \notin {"index", "transfers"} /\ failedAt # "transfers"

\* C11 as stated: when the scan stops, allTransfers holds every stored
\* transfer at or after the 30-day cutoff exactly once, for every number of
\* such transfers and every ascending order the store may answer each page
\* request in.
C11_AsStated ==
    TransferScanDone =>
        /\ Len(allTransfers) = Cardinality(MatchingTransfers)
        /\ \A t \in MatchingTransfers :
              TimesIn(allTransfers, TransferRow(t)) =
                  Cardinality({u \in MatchingTransfers :
                                  TransferRow(u) = TransferRow(t)})

\* the scan leaves its loop only on a page shorter than the page size
C11_StopsAfterShortPage ==
    [][pc = "transfers" /\ pc' # "transfers" =>
          Len(allTransfers') - Len(allTransfers) < TRANSFER_LIMIT]_vars

\* no two selected transfers have the same blockTimestamp
NoEqualTimestamps ==
    \A t, u \in MatchingTransfers :
        t # u => t.blockTimestamp # u.blockTimestamp

\* The scan is complete and without repeats when the order of the rows is
\* fixed by their timestamps, and when one page holds every row.
C11_HoldsWithFixedOrder ==
    (NoEqualTimestamps \/ Cardinality(MatchingTransfers) < TRANSFER_LIMIT)
        => C11_AsStated

\* a scan that ended over as many selected transfers as two full pages,
\* at distinct timestamps
C11_FullPagesScanned ==
    /\ TransferScanDone
    /\ NoEqualTimestamps
    /\ Cardinality(MatchingTransfers) = 2 * TRANSFER_LIMIT
    /\ offset = 2 * TRANSFER_LIMIT

=============================================================================
